---- MODULE Spec2Model ----
(***************************************************************************)
(* Tic Tac Toe frontend (src/tic_tac_toe_frontend/src/App.js).             *)
(*                                                                         *)
(* The App component keeps five pieces of React state (mode, board,        *)
(* xIsNext, aiTurn, status), three effects and three event handlers; the   *)
(* AI move is written by a setTimeout callback that carries a board copy   *)
(* computed when it was scheduled.                                         *)
(*                                                                         *)
(* React semantics used by the model:                                      *)
(*  - the setter calls of one handler, one timer callback or one pass of   *)
(*    effects are batched and applied together, then the component         *)
(*    renders again;                                                       *)
(*  - after a render, every effect whose dependency list changed runs, in  *)
(*    source order, reading the state of THAT render (its closure);        *)
(*  - a setter called with a fresh array or object always changes the      *)
(*    state (reference comparison); status.winner, aiTurn and mode are     *)
(*    compared by value;                                                   *)
(*  - renders and effects triggered by one event run to quiescence before  *)
(*    the next event (click, mode selection, restart, timer) is handled;   *)
(*  - timers with the same delay fire in the order they were scheduled.    *)
(***************************************************************************)
EXTENDS Integers, Sequences, FiniteSets, TLC

VARIABLES mode, board, xIsNext, aiTurn, status, timers, event, inputs, call

vars == <<mode, board, xIsNext, aiTurn, status, timers, event, inputs, call>>

\* Bound on the length of a session: the number of accepted user inputs
\* (clicks that place a mark, mode changes, restarts) counted from the first
\* change of mode on.  The PvP game played before it is not bounded.
MaxInputs == 3

Cells == 0..8
EMPTY == "_"
Marks == {"X", "O"}
Modes == {"pvp", "ai"}

emptyBoard == [i \in Cells |-> EMPTY]

lines == << <<0, 1, 2>>, <<3, 4, 5>>, <<6, 7, 8>>,
            <<0, 3, 6>>, <<1, 4, 7>>, <<2, 5, 8>>,
            <<0, 4, 8>>, <<2, 4, 6>> >>

\* The value null returned by calculateWinner for an unfinished game.
NULL == [winner |-> "null", line |-> <<>>]

\* The object {winner: null, line: []} stored in status.
NoStatus == [winner |-> "none", line |-> <<>>]

Min(S) == CHOOSE x \in S : \A y \in S : x <= y

Complete(squares, l) ==
    /\ squares[l[1]] # EMPTY
    /\ squares[l[1]] = squares[l[2]]
    /\ squares[l[1]] = squares[l[3]]

\* Mutant of calculateWinner: the full-board test comes before the scan.
calculateWinner_TieFirst(squares) ==
    LET hits == {k \in 1..8 : Complete(squares, lines[k])}
    IN  IF \A i \in Cells : squares[i] # EMPTY
        THEN [winner |-> "tie", line |-> <<>>]
        ELSE IF hits # {}
             THEN LET l == lines[Min(hits)]
                  IN  [winner |-> squares[l[1]], line |-> l]
             ELSE NULL

\* Mutant of calculateWinner: the full-board test is missing.
calculateWinner_NoTie(squares) ==
    LET hits == {k \in 1..8 : Complete(squares, lines[k])}
    IN  IF hits # {}
        THEN LET l == lines[Min(hits)]
             IN  [winner |-> squares[l[1]], line |-> l]
        ELSE NULL

\* Mutant of calculateWinner: some() instead of every() in the tie test.
calculateWinner_SomeFilled(squares) ==
    LET hits == {k \in 1..8 : Complete(squares, lines[k])}
    IN  IF hits # {}
        THEN LET l == lines[Min(hits)]
             IN  [winner |-> squares[l[1]], line |-> l]
        ELSE IF \E i \in Cells : squares[i] # EMPTY
             THEN [winner |-> "tie", line |-> <<>>]
             ELSE NULL

calculateWinner(squares) ==
    LET hits == {k \in 1..8 : Complete(squares, lines[k])}
    IN  IF hits # {}
        THEN LET l == lines[Min(hits)]
             IN  [winner |-> squares[l[1]], line |-> l]
        ELSE IF \A i \in Cells : squares[i] # EMPTY
             THEN [winner |-> "tie", line |-> <<>>]
             ELSE NULL

\* The cells i for which placing mark on the empty cell i wins for mark.
WinningCells(b, mark) ==
    {i \in Cells : b[i] = EMPTY
                   /\ calculateWinner([b EXCEPT ![i] = mark]).winner = mark}

\* Mutant of computeAIMove: the block loop runs before the win loop.
computeAIMove_BlockFirst(b, aiMark, playerMark) ==
    LET wins    == WinningCells(b, aiMark)
        blocks  == WinningCells(b, playerMark)
        corners == {i \in {0, 2, 6, 8} : b[i] = EMPTY}
        sides   == {i \in {1, 3, 5, 7} : b[i] = EMPTY}
    IN  IF blocks # {} THEN {Min(blocks)}
        ELSE IF wins # {} THEN {Min(wins)}
        ELSE IF b[4] = EMPTY THEN {4}
        ELSE IF corners # {} THEN corners
        ELSE IF sides # {} THEN sides
        ELSE {-1}

\* Mutant of computeAIMove: the center is taken before blocking.
computeAIMove_CenterFirst(b, aiMark, playerMark) ==
    LET wins    == WinningCells(b, aiMark)
        blocks  == WinningCells(b, playerMark)
        corners == {i \in {0, 2, 6, 8} : b[i] = EMPTY}
        sides   == {i \in {1, 3, 5, 7} : b[i] = EMPTY}
    IN  IF wins # {} THEN {Min(wins)}
        ELSE IF b[4] = EMPTY THEN {4}
        ELSE IF blocks # {} THEN {Min(blocks)}
        ELSE IF corners # {} THEN corners
        ELSE IF sides # {} THEN sides
        ELSE {-1}

\* Mutant of computeAIMove: the first empty corner or side, no random pick.
computeAIMove_FirstCorner(b, aiMark, playerMark) ==
    LET wins    == WinningCells(b, aiMark)
        blocks  == WinningCells(b, playerMark)
        corners == {i \in {0, 2, 6, 8} : b[i] = EMPTY}
        sides   == {i \in {1, 3, 5, 7} : b[i] = EMPTY}
    IN  IF wins # {} THEN {Min(wins)}
        ELSE IF blocks # {} THEN {Min(blocks)}
        ELSE IF b[4] = EMPTY THEN {4}
        ELSE IF corners # {} THEN {Min(corners)}
        ELSE IF sides # {} THEN {Min(sides)}
        ELSE {-1}

\* Mutant of computeAIMove: the center is returned without testing it.
computeAIMove_CenterAlways(b, aiMark, playerMark) ==
    LET wins    == WinningCells(b, aiMark)
        blocks  == WinningCells(b, playerMark)
    IN  IF wins # {} THEN {Min(wins)}
        ELSE IF blocks # {} THEN {Min(blocks)}
        ELSE {4}

\* The set of results computeAIMove can return (Math.random picks among
\* the empty corners, then among the empty sides).
computeAIMove(b, aiMark, playerMark) ==
    LET wins    == WinningCells(b, aiMark)
        blocks  == WinningCells(b, playerMark)
        corners == {i \in {0, 2, 6, 8} : b[i] = EMPTY}
        sides   == {i \in {1, 3, 5, 7} : b[i] = EMPTY}
    IN  IF wins # {} THEN {Min(wins)}
        ELSE IF blocks # {} THEN {Min(blocks)}
        ELSE IF b[4] = EMPTY THEN {4}
        ELSE IF corners # {} THEN corners
        ELSE IF sides # {} THEN sides
        ELSE {-1}

playerMark == "X"
aiMark == "O"

(***************************************************************************)
(* A render is a record s of the five state values.  The setter calls made *)
(* while handling it are collected in a record n with the same fields and  *)
(* boardSet, which tells whether setBoard was called (a new array).        *)
(***************************************************************************)
Render(m, b, x, a, st) ==
    [mode |-> m, board |-> b, xIsNext |-> x, aiTurn |-> a, status |-> st]

Pending(s) ==
    [mode |-> s.mode, board |-> s.board, xIsNext |-> s.xIsNext,
     aiTurn |-> s.aiTurn, status |-> s.status, boardSet |-> FALSE]

Commit(n) == Render(n.mode, n.board, n.xIsNext, n.aiTurn, n.status)

\* The dependencies that differ between render s and the render after n.
Changed(s, n) ==
    (IF n.mode # s.mode THEN {"mode"} ELSE {})
    \cup (IF n.boardSet THEN {"board"} ELSE {})
    \cup (IF n.aiTurn # s.aiTurn THEN {"aiTurn"} ELSE {})
    \cup (IF n.status.winner # s.status.winner THEN {"winner"} ELSE {})

setAiFirstMove(s) == s.mode = "ai" /\ ~s.xIsNext

\* Mutant of modeEffect: the turn is reset but the board is kept.
modeEffect_KeepBoard(s, n) ==
    [n EXCEPT !.xIsNext = TRUE, !.aiTurn = setAiFirstMove(s),
              !.status = NoStatus]

\* useEffect(..., [mode]): reset the game when the mode changes.
modeEffect(s, n) ==
    [n EXCEPT !.board = emptyBoard, !.boardSet = TRUE, !.xIsNext = TRUE,
              !.aiTurn = setAiFirstMove(s), !.status = NoStatus]

\* Mutant of statusEffect: a result is stored without its winning line.
statusEffect_NoLine(s, n) ==
    LET result == calculateWinner(s.board)
    IN  IF result # NULL
        THEN [n EXCEPT !.status = [winner |-> result.winner, line |-> <<>>]]
        ELSE [n EXCEPT !.status = NoStatus,
                       !.aiTurn = (s.mode = "ai" /\ s.status.winner = "none"
                                   /\ ~s.xIsNext)]

\* useEffect(..., [board]): compute status on any board update.
statusEffect(s, n) ==
    LET result == calculateWinner(s.board)
    IN  IF result # NULL
        THEN [n EXCEPT !.status = result]
        ELSE [n EXCEPT !.status = NoStatus,
                       !.aiTurn = (/\ s.mode = "ai"
                                   /\ s.status.winner = "none"
                                   /\ \/ (s.xIsNext /\ aiMark = "X")
                                      \/ (~s.xIsNext /\ aiMark = "O"))]

\* useEffect(..., [aiTurn, board, mode, status.winner]): the board copies
\* this run of the effect may hand to setTimeout (none: nothing scheduled).
aiMoveEffect(s) ==
    IF s.mode = "ai" /\ s.aiTurn /\ s.status.winner = "none"
    THEN {[s.board EXCEPT ![idx] = aiMark] :
            idx \in computeAIMove(s.board, aiMark, playerMark) \ {-1}}
    ELSE {}

\* One pass of effects after render s, whose dependencies ch changed, and
\* the renders that follow, until no effect has anything left to run.
RECURSIVE Settle(_, _, _)
Settle(s, ch, tm) ==
    IF ch = {}
    THEN {[st |-> s, timers |-> tm]}
    ELSE LET n0 == Pending(s)
             n1 == IF "mode" \in ch THEN modeEffect(s, n0) ELSE n0
             n2 == IF "board" \in ch THEN statusEffect(s, n1) ELSE n1
             copies == IF ch \cap {"aiTurn", "board", "mode", "winner"} # {}
                       THEN aiMoveEffect(s) ELSE {}
             tms == IF copies = {} THEN {tm}
                    ELSE {Append(tm, c) : c \in copies}
         IN  UNION {Settle(Commit(n2), Changed(s, n2), t) : t \in tms}

\* Mutant of handleClick: the occupied-cell and game-over guard is missing.
handleClick_NoGuard(s, i) ==
    IF s.mode = "pvp" \/ (s.mode = "ai" /\ s.xIsNext)
    THEN [Pending(s) EXCEPT
             !.board = [s.board EXCEPT ![i] = IF s.xIsNext THEN "X" ELSE "O"],
             !.boardSet = TRUE,
             !.xIsNext = ~s.xIsNext,
             !.aiTurn = FALSE]
    ELSE Pending(s)

\* Mutant of handleClick: the turn is not flipped.
handleClick_NoFlip(s, i) ==
    IF s.status.winner # "none" \/ s.board[i] # EMPTY
    THEN Pending(s)
    ELSE IF s.mode = "pvp" \/ (s.mode = "ai" /\ s.xIsNext)
         THEN [Pending(s) EXCEPT
                  !.board = [s.board EXCEPT ![i] = IF s.xIsNext THEN "X" ELSE "O"],
                  !.boardSet = TRUE,
                  !.aiTurn = FALSE]
         ELSE Pending(s)

\* The setter calls of handleClick(i); none when the click is rejected.
handleClick(s, i) ==
    IF s.status.winner # "none" \/ s.board[i] # EMPTY
    THEN Pending(s)
    ELSE IF s.mode = "pvp" \/ (s.mode = "ai" /\ s.xIsNext)
         THEN [Pending(s) EXCEPT
                  !.board = [s.board EXCEPT ![i] = IF s.xIsNext THEN "X" ELSE "O"],
                  !.boardSet = TRUE,
                  !.xIsNext = ~s.xIsNext,
                  !.aiTurn = FALSE]
         ELSE Pending(s)

\* Mutant of handleRestart: the turn is not reset to X.
handleRestart_KeepTurn(s) ==
    [Pending(s) EXCEPT !.board = emptyBoard, !.boardSet = TRUE,
                       !.status = NoStatus,
                       !.aiTurn = setAiFirstMove(s)]

\* The setter calls of handleRestart.
handleRestart(s) ==
    [Pending(s) EXCEPT !.board = emptyBoard, !.boardSet = TRUE,
                       !.xIsNext = TRUE, !.status = NoStatus,
                       !.aiTurn = setAiFirstMove(s)]

\* The setter calls of the setTimeout callback carrying boardCopy.
timerCallback(s, boardCopy) ==
    [Pending(s) EXCEPT !.board = boardCopy, !.boardSet = TRUE,
                       !.xIsNext = ~s.xIsNext]

Current == Render(mode, board, xIsNext, aiTurn, status)

\* The state after the batched setter calls n of event e and the effects
\* they trigger, with tm the timers still scheduled.  A handler that calls
\* no setter leaves everything as it is (no render).
Apply(e, n, tm) ==
    IF n = Pending(Current) /\ tm = timers
    THEN UNCHANGED vars
    ELSE \E r \in Settle(Commit(n), Changed(Current, n), tm) :
            /\ mode' = r.st.mode
            /\ board' = r.st.board
            /\ xIsNext' = r.st.xIsNext
            /\ aiTurn' = r.st.aiTurn
            /\ status' = r.st.status
            /\ timers' = r.timers
            /\ event' = e
            /\ inputs' = IF e = "timer" \/ (inputs = 0 /\ e # "mode")
                          THEN inputs ELSE inputs + 1
            /\ UNCHANGED call

\* Accepted user inputs are counted from the first change of mode on; the
\* session ends after MaxInputs of them.
CanInput(n) == n # Pending(Current) => inputs < MaxInputs

\* call records the last direct call of a rules-engine function (used by
\* the specification Engine below); the app itself never sets it.
NoCall == [op |-> "none", self |-> "-", verdict |-> NULL, move |-> -1]

\* The first render, with the values given to useState.
Mount == Render("pvp", emptyBoard, TRUE, FALSE, NoStatus)

\* After the first render every effect runs once.
Init ==
    \E r \in Settle(Mount, {"mode", "board", "aiTurn", "winner"}, <<>>) :
        /\ mode = r.st.mode
        /\ board = r.st.board
        /\ xIsNext = r.st.xIsNext
        /\ aiTurn = r.st.aiTurn
        /\ status = r.st.status
        /\ timers = r.timers
        /\ event = "load"
        /\ inputs = 0
        /\ call = NoCall

\* A click on square i (Board.onClick -> handleClick).
Click(i) ==
    /\ CanInput(handleClick(Current, i))
    /\ Apply("click", handleClick(Current, i), timers)

\* The setter call of a ModeSelector button; setMode with the current mode
\* changes nothing.
selectMode(s, m) == [Pending(s) EXCEPT !.mode = m]

SelectMode(m) ==
    /\ CanInput(selectMode(Current, m))
    /\ Apply("mode", selectMode(Current, m), timers)

\* A click on the Restart button, rendered only while status.winner is set.
Restart ==
    /\ status.winner # "none"
    /\ CanInput(handleRestart(Current))
    /\ Apply("restart", handleRestart(Current), timers)

\* The oldest scheduled timer fires.
TimerFire ==
    /\ timers # <<>>
    /\ Apply("timer", timerCallback(Current, Head(timers)), Tail(timers))

Next ==
    \/ \E i \in Cells : Click(i)
    \/ \E m \in Modes : SelectMode(m)
    \/ Restart
    \/ TimerFire

Spec == Init /\ [][Next]_vars

(***************************************************************************)
(* The rules engine on its own: calculateWinner and computeAIMove called   *)
(* on every well-formed board (9 cells, each empty, X or O), with either   *)
(* mark as the AI's.                                                       *)
(***************************************************************************)
Boards == [Cells -> {EMPTY} \cup Marks]

Other(mark) == IF mark = "X" THEN "O" ELSE "X"

EngineInit ==
    /\ board \in Boards
    /\ mode = "pvp"
    /\ xIsNext = TRUE
    /\ aiTurn = FALSE
    /\ status = NoStatus
    /\ timers = <<>>
    /\ event = "load"
    /\ inputs = 0
    /\ call = NoCall

\* calculateWinner(board) is called and its result recorded.
Evaluate ==
    /\ call' = [op |-> "calculateWinner", self |-> "-",
                verdict |-> calculateWinner(board), move |-> -1]
    /\ UNCHANGED <<mode, board, xIsNext, aiTurn, status, timers, event, inputs>>

\* computeAIMove(board, self, Other(self)) is called and the index it
\* returns recorded.
Recommend(self) ==
    /\ \E idx \in computeAIMove(board, self, Other(self)) :
          call' = [op |-> "computeAIMove", self |-> self,
                   verdict |-> NULL, move |-> idx]
    /\ UNCHANGED <<mode, board, xIsNext, aiTurn, status, timers, event, inputs>>

EngineNext ==
    \/ Evaluate
    \/ \E self \in Marks : Recommend(self)

Engine == EngineInit /\ [][EngineNext]_vars

(***************************************************************************)
(* Properties                                                              *)
(***************************************************************************)
Count(b, mark) == Cardinality({i \in Cells : b[i] = mark})

\* The verdict of the board on display.
Terminal(b) == calculateWinner(b) # NULL

\* The step sets exactly one empty cell to a mark and keeps the other eight.
OneCellSet ==
    \E i \in Cells :
        /\ board[i] = EMPTY
        /\ board'[i] \in Marks
        /\ \A j \in Cells \ {i} : board'[j] = board[j]

\* C1: in every reachable state the numbers of X marks and of O marks on
\* the board differ by at most one.
C1_MarkCountsBalanced ==
    LET d == Count(board, "X") - Count(board, "O")
    IN  d \in {-1, 0, 1}

\* C2: every step of a click or of the delayed AI move that changes the
\* board sets exactly one previously empty cell and leaves the other eight
\* cells unchanged.
C2_OneCellAtATime ==
    [][(event' \in {"click", "timer"} /\ board' # board) => OneCellSet]_vars

\* C3: once the board's verdict is Won or Tie, only a restart or a mode
\* switch changes the board.
C3_NoMarkAfterEnd ==
    [][(Terminal(board) /\ event' \notin {"restart", "mode"})
          => board' = board]_vars

\* C4: while an AI timer is scheduled, no click, mode selection or restart
\* changes the board, the turn or the mode.
C4_PendingMoveNotRaced ==
    [][(timers # <<>> /\ event' # "timer")
          => UNCHANGED <<board, xIsNext, mode>>]_vars

\* C5: in AI mode the game never rests in an Ongoing state with O to move
\* and no AI move scheduled.
C5_AIMoveAlwaysPending ==
    (mode = "ai" /\ status.winner = "none" /\ ~xIsNext) => timers # <<>>

\* The game as it is after load: empty board, X to move, verdict Ongoing.
Fresh ==
    /\ board = emptyBoard
    /\ xIsNext
    /\ status = NoStatus
    /\ ~Terminal(board)

\* C6: a restart leaves the board all-empty, X to move and the verdict
\* Ongoing, in either mode.
C6_RestartResets == event = "restart" => Fresh

C6_Witness == event = "restart" /\ mode = "ai"

\* C7: after load and after every change of mode the board is all-empty, it
\* is X's turn and the verdict is Ongoing.
C7_FreshOnLoadAndModeChange == event \in {"load", "mode"} => Fresh

\* A mode change made in the middle of a game (an AI move was scheduled).
C7_Witness == event = "mode" /\ timers # <<>> /\ inputs >= 2

\* The conditions under which handleClick(i) rejects the click.
Rejected(i) ==
    \/ status.winner # "none"
    \/ board[i] # EMPTY
    \/ (mode = "ai" /\ ~xIsNext)

\* The states the app can settle in after handleClick(i) and the effects it
\* triggers.
ClickOutcomes(i) ==
    Settle(Commit(handleClick(Current, i)),
           Changed(Current, handleClick(Current, i)), timers)

\* C8: a rejected click (game over, cell occupied, or O's turn in AI mode)
\* is a no-op: the only state the app can be in after it is the state it
\* was in, with the same board, turn, mode and stored verdict.
C8_RejectedClickNoOp ==
    \A i \in Cells :
        Rejected(i) => ClickOutcomes(i) = {[st |-> Current, timers |-> timers]}

\* States in which each of the three reasons for rejection arises.
C8_Witness ==
    /\ mode = "ai" /\ ~xIsNext /\ status.winner = "none"
    /\ \E i, j \in Cells : board[i] # EMPTY /\ board[j] = EMPTY

\* C9: the stored status is the verdict of the board on display: winner
\* and line when a triple is complete, tie when the board is full without
\* one, no winner and an empty line otherwise.
C9_StatusNeverStale ==
    status = IF Terminal(board) THEN calculateWinner(board) ELSE NoStatus

\* A win stored after a delayed AI move.
C9_Witness ==
    /\ event = "timer"
    /\ status.winner = "O" /\ Len(status.line) = 3

\* C10: in PvP mode a click on an empty cell of an Ongoing game places the
\* mark of the current turn there, keeps the other cells and flips the
\* turn; on the empty board a click on cell 0 gives X on cell 0, O to move.
C10_PvPClickPlacesMark ==
    [][\A i \in Cells :
          (mode = "pvp" /\ board[i] = EMPTY /\ status.winner = "none"
           /\ Click(i))
             => /\ board' = [board EXCEPT ![i] = IF xIsNext THEN "X" ELSE "O"]
                /\ xIsNext' = ~xIsNext
                /\ (board = emptyBoard /\ i = 0
                      => board' = [emptyBoard EXCEPT ![0] = "X"] /\ ~xIsNext')]_vars

\* A PvP game in which O has just been placed by a click.
C10_Witness ==
    /\ mode = "pvp" /\ event = "click" /\ xIsNext
    /\ Count(board, "O") = 2 /\ Count(board, "X") = 2

(***************************************************************************)
(* Properties of the rules engine (specification Engine)                   *)
(***************************************************************************)
\* The 8 fixed triples in the order rows, columns, diagonals.
Triples ==
    [k \in 1..8 |->
        IF k <= 3 THEN <<3 * (k - 1), 3 * (k - 1) + 1, 3 * (k - 1) + 2>>
        ELSE IF k <= 6 THEN <<k - 4, k - 1, k + 2>>
        ELSE IF k = 7 THEN <<0, 4, 8>>
        ELSE <<2, 4, 6>>]

\* Three equal non-empty marks along triple t.
ThreeEqual(b, t) ==
    /\ b[t[1]] \in Marks
    /\ b[t[2]] = b[t[1]]
    /\ b[t[3]] = b[t[1]]

HasTriple(b) == \E k \in 1..8 : ThreeEqual(b, Triples[k])

Full(b) == \A i \in Cells : b[i] # EMPTY

Evaluated == call.op = "calculateWinner"

BoardOf(cells) == [i \in Cells |-> cells[i + 1]]

\* C11: on a board with three equal non-empty marks along a fixed triple,
\* calculateWinner returns that mark and the first such triple in the order
\* rows, columns, diagonals, also when the board is full.
C11_WinnerAndFirstTriple ==
    (Evaluated /\ HasTriple(board)) =>
        \E k \in 1..8 :
            /\ ThreeEqual(board, Triples[k])
            /\ \A j \in 1..(k - 1) : ~ThreeEqual(board, Triples[j])
            /\ call.verdict = [winner |-> board[Triples[k][1]],
                               line |-> Triples[k]]

\* A full board with two complete triples, evaluated as a win.
C11_Witness ==
    /\ Evaluated /\ Full(board)
    /\ Cardinality({k \in 1..8 : ThreeEqual(board, Triples[k])}) >= 2
    /\ call.verdict.winner \in Marks

\* C12: on a full board with no winning triple calculateWinner returns a
\* tie with an empty line.
C12_FullBoardTie ==
    (Evaluated /\ Full(board) /\ ~HasTriple(board)) =>
        call.verdict = [winner |-> "tie", line |-> <<>>]

TieExample == BoardOf(<<"X", "O", "X", "O", "X", "O", "O", "X", "O">>)

\* The example board [X,O,X, O,X,O, O,X,O], evaluated as a tie.
C12_Witness ==
    /\ Evaluated /\ board = TieExample
    /\ ~HasTriple(board)
    /\ call.verdict.winner = "tie"

\* C13: on a board with an empty cell and no winning triple
\* calculateWinner returns null (Ongoing).
C13_OngoingIsNull ==
    (Evaluated /\ ~Full(board) /\ ~HasTriple(board)) => call.verdict = NULL

\* A board with a single empty cell and no triple, evaluated as Ongoing.
C13_Witness ==
    /\ Evaluated /\ Count(board, EMPTY) = 1 /\ ~HasTriple(board)
    /\ call.verdict = NULL

Recommended == call.op = "computeAIMove"

\* Neither won nor full.
NonTerminal(b) == ~HasTriple(b) /\ ~Full(b)

\* Placing mark on the empty cell i completes a triple for mark.
Completes(b, i, mark) ==
    /\ b[i] = EMPTY
    /\ \E k \in 1..8 :
          /\ \E p \in 1..3 : Triples[k][p] = i
          /\ \A p \in 1..3 : Triples[k][p] # i => b[Triples[k][p]] = mark

CompletingCells(b, mark) == {i \in Cells : Completes(b, i, mark)}

\* i is the lowest-indexed element of S.
Lowest(i, S) == i \in S /\ \A j \in S : i <= j

\* C14: on a non-terminal board with an empty cell that completes a triple
\* for selfMark, computeAIMove returns the lowest-indexed such cell, and the
\* board with that move evaluates to Won for selfMark.
C14_WinFirst ==
    (Recommended /\ NonTerminal(board)
     /\ CompletingCells(board, call.self) # {}) =>
        /\ Lowest(call.move, CompletingCells(board, call.self))
        /\ calculateWinner([board EXCEPT ![call.move] = call.self]).winner
              = call.self

\* A win taken although the opponent threatens a lower-indexed cell and
\* the center is free.
C14_Witness ==
    /\ Recommended /\ NonTerminal(board) /\ board[4] = EMPTY
    /\ call.move \in CompletingCells(board, call.self)
    /\ \E j \in CompletingCells(board, Other(call.self)) : j < call.move

\* C15: on a non-terminal board where selfMark has no completing cell but
\* opponentMark has one, computeAIMove returns the lowest-indexed cell that
\* completes a triple for opponentMark.
C15_BlockSecond ==
    (Recommended /\ NonTerminal(board)
     /\ CompletingCells(board, call.self) = {}
     /\ CompletingCells(board, Other(call.self)) # {}) =>
        Lowest(call.move, CompletingCells(board, Other(call.self)))

\* A block made although the center is free.
C15_Witness ==
    /\ Recommended /\ NonTerminal(board) /\ board[4] = EMPTY
    /\ CompletingCells(board, call.self) = {}
    /\ call.move \in CompletingCells(board, Other(call.self))

\* Some empty cell yields Won for mark when the move is simulated.
ImmediateWin(b, mark) ==
    \E i \in Cells :
        b[i] = EMPTY /\ calculateWinner([b EXCEPT ![i] = mark]).winner = mark

EmptyCorners(b) == {i \in {0, 2, 6, 8} : b[i] = EMPTY}
EmptySides(b) == {i \in {1, 3, 5, 7} : b[i] = EMPTY}

\* The results computeAIMove can return for the recorded call.
Possible == computeAIMove(board, call.self, Other(call.self))

\* C16: with no immediate win for either mark, computeAIMove returns 4 if
\* the center is empty, otherwise an empty corner (each one possible),
\* otherwise an empty side (each one possible); the result is determined
\* except for the choice among two or more empty corners or sides.
C16_FallbackOrder ==
    Recommended =>
        /\ (~ImmediateWin(board, call.self)
             /\ ~ImmediateWin(board, Other(call.self))) =>
               IF board[4] = EMPTY
               THEN call.move = 4 /\ Possible = {4}
               ELSE IF EmptyCorners(board) # {}
               THEN call.move \in EmptyCorners(board)
                    /\ Possible = EmptyCorners(board)
               ELSE IF EmptySides(board) # {}
               THEN call.move \in EmptySides(board)
                    /\ Possible = EmptySides(board)
               ELSE TRUE
        /\ Cardinality(Possible) > 1 =>
               /\ ~ImmediateWin(board, call.self)
               /\ ~ImmediateWin(board, Other(call.self))
               /\ board[4] # EMPTY
               /\ Possible \in {EmptyCorners(board), EmptySides(board)}

\* The highest of three empty corners is returned.
C16_Witness ==
    /\ Recommended /\ board[4] # EMPTY
    /\ ~ImmediateWin(board, call.self)
    /\ ~ImmediateWin(board, Other(call.self))
    /\ Cardinality(EmptyCorners(board)) = 3
    /\ call.move \in EmptyCorners(board)
    /\ \A j \in EmptyCorners(board) : j <= call.move

\* C17: computeAIMove returns -1 exactly when the board has no empty cell,
\* and otherwise the index of an empty cell of the board.
C17_TotalAndEmptyCell ==
    Recommended =>
        /\ call.move = -1 <=> Full(board)
        /\ call.move # -1 => call.move \in Cells /\ board[call.move] = EMPTY

\* A move recommended on a board that is already won, center occupied.
C17_Witness ==
    /\ Recommended /\ HasTriple(board) /\ board[4] # EMPTY
    /\ Count(board, EMPTY) = 2
    /\ call.move \in Cells /\ board[call.move] = EMPTY

BlockExample == BoardOf(<<"X", "X", "_", "O", "O", "_", "_", "_", "_">>)

\* C18 as stated: on [X,X,_, O,O,_, _,_,_] with selfMark O the result is 5,
\* 5 being the block of X's win and 8 the AI's own win.
C18_ReturnsFiveAsBlock ==
    (Recommended /\ board = BlockExample /\ call.self = "O") =>
        /\ call.move = 5
        /\ Completes(board, 5, "X")
        /\ Completes(board, 8, "O")

\* C18 amended: on [X,X,_, O,O,_, _,_,_] with selfMark O the result is 5,
\* 5 being the AI's own win (row 3-4-5), taken before the block of X's win
\* at index 2.
C18_ReturnsFiveAsWin ==
    (Recommended /\ board = BlockExample /\ call.self = "O") =>
        /\ call.move = 5
        /\ CompletingCells(board, "O") = {5}
        /\ CompletingCells(board, "X") = {2}

C18_Witness ==
    /\ Recommended /\ board = BlockExample /\ call.self = "O"
    /\ call.move = 5

\* A pending automated move that was computed on the empty board.
OpeningMove(boardCopy) ==
    Count(boardCopy, "X") + Count(boardCopy, "O") = 1

\* C19: the automated player never opens a game: no automated move is
\* scheduled on the empty board, and the first mark placed on the empty
\* board is a single X placed by a human click.
C19_AINeverOpens ==
    [][/\ \A k \in 1..Len(timers') : ~OpeningMove(timers'[k])
       /\ (board = emptyBoard /\ board' # board) =>
              /\ event' = "click"
              /\ Count(board', "X") = 1
              /\ Count(board', "O") = 0]_vars

\* C20: while the mode is PvP, every change of the board or of the turn is
\* the step of an accepted click or of a restart.
C20_NoAIMoveInPvP ==
    [][(mode = "pvp" /\ mode' = "pvp"
        /\ (board' # board \/ xIsNext' # xIsNext))
          => event' \in {"click", "restart"}]_vars

====
